---- MODULE Spec2Model ----
(***************************************************************************)
(* The type object of the VM (vm/src/obj/objtype.rs): construction of      *)
(* types, the C3-style merge that computes their method resolution order,  *)
(* isinstance / issubclass, type.__call__, type.__getattribute__,          *)
(* get_attributes, type.__mro__ and type.__repr__.                         *)
(*                                                                         *)
(* Objects live in a heap; a handle is an index into it and two handles    *)
(* are the same object exactly when they are the same index (IdProtocol).  *)
(***************************************************************************)
EXTENDS Naturals, Sequences, FiniteSets, TLC

VARIABLES heap, aborted, result

vars == <<heap, aborted, result>>

(***************************************************************************)
(* Bounds of the model.                                                    *)
(***************************************************************************)
\* types the construction runs create on top of the bootstrap objects
MaxTypes == 3
\* length of the base list handed to a construction
MaxBases == 2
\* objects (classes and instances) the instantiation runs create
MaxCallObjs == 3
\* classes the attribute-lookup runs create
MaxAttrObjs == 4
\* classes the ancestry-query runs create
MaxQueryTypes == 2
\* objects (classes and instances) the attribute-flattening runs create
MaxFlatObjs == 3
\* objects (classes and instances) the mixed runs create
MaxFrameObjs == 2
\* objects (classes and instances) the protocol runs create
MaxProtoObjs == 3
\* sequences of a worklist handed to linearise_mro directly, and their length
MaxLinSeqs == 2
MaxLinLen == 2
\* sequences of a worklist of the merge runs, and their length
MaxStepSeqs == 3
MaxStepLen == 2
\* created types up to which linearise_mro is called directly
MaxLinHeap == 0

(***************************************************************************)
(* The bootstrap objects of a context.                                     *)
(***************************************************************************)
ObjectType == 1
TypeType == 2
NoneObj == 3
FnObj == 4

NoHandle == 0

EmptyDict == [n \in {} |-> NoHandle]

\* the attributes init() installs on the type type
TypeAttrs ==
    [n \in {"__call__", "__new__", "__mro__", "__class__", "__repr__",
            "__prepare__", "__getattribute__"} |-> FnObj]

\* object carries the allocator every class inherits
ObjectAttrs == [n \in {"__new__"} |-> FnObj]

Class(name, dict, mro, typ) ==
    [kind |-> "Class", name |-> name, dict |-> dict, mro |-> mro, typ |-> typ]

Plain(kind, dict, typ) ==
    [kind |-> kind, name |-> "", dict |-> dict, mro |-> <<>>, typ |-> typ]

\* create_type: the type type is a class named "type" whose mro is [object]
\* and whose type is itself
create_type == Class("type", TypeAttrs, <<ObjectType>>, TypeType)

Bootstrap ==
    << Class("object", ObjectAttrs, <<>>, TypeType),
       create_type,
       Plain("None", EmptyDict, ObjectType),
       Plain("RustFunction", EmptyDict, ObjectType) >>

Handles(h) == 1..Len(h)

IsClass(h, o) == o \in Handles(h) /\ h[o].kind = "Class"

Classes(h) == {o \in Handles(h) : h[o].kind = "Class"}

Range(s) == {s[i] : i \in 1..Len(s)}

\* sequences over S of length lo..hi
SeqsOf(S, lo, hi) == UNION {[1..n -> S] : n \in lo..hi}

(***************************************************************************)
(* _mro: the full MRO of a class, itself first; None for a non-class.      *)
(***************************************************************************)
NoMro == [some |-> FALSE, mro |-> <<>>]

_mro(h, cls) ==
    IF h[cls].kind = "Class"
    THEN [some |-> TRUE, mro |-> <<cls>> \o h[cls].mro]
    ELSE NoMro

\* obj.typ()
typ(h, obj) == h[obj].typ

\* the type of the object itself is left out of the search
isinstance_noself(h, obj, cls) ==
    \E i \in 1..Len(h[typ(h, obj)].mro) : h[typ(h, obj)].mro[i] = cls

\* isinstance: is cls, by identity, in the full MRO of the object's type
isinstance(h, obj, cls) ==
    \E i \in 1..Len(_mro(h, typ(h, obj)).mro) : _mro(h, typ(h, obj)).mro[i] = cls

\* classes are compared by name
issubclass_name(h, t, cls) ==
    \E i \in 1..Len(_mro(h, t).mro) : h[_mro(h, t).mro[i]].name = h[cls].name

\* issubclass: is cls, by identity, in the full MRO of typ
issubclass(h, t, cls) ==
    \E i \in 1..Len(_mro(h, t).mro) : _mro(h, t).mro[i] = cls

(***************************************************************************)
(* take_next_base / linearise_mro: the merge of the base MROs.             *)
(***************************************************************************)
NonEmpty(bases) == SelectSeq(bases, LAMBDA x : x # <<>>)

\* a tail that starts one element too late
InTail_late(x, head) == \E k \in 3..Len(x) : x[k] = head

InTail(x, head) == \E k \in 2..Len(x) : x[k] = head

\* the head of sequence i occurs nowhere in another sequence
Qualifies_alone(bases, i) ==
    ~ \E j \in 1..Len(bases) :
        \/ InTail(bases[j], bases[i][1])
        \/ j # i /\ bases[j][1] = bases[i][1]

\* the head of sequence i occurs in no tail
Qualifies(bases, i) ==
    ~ \E j \in 1..Len(bases) : InTail(bases[j], bases[i][1])

NoNext == [some |-> FALSE, head |-> NoHandle, bases |-> <<>>]

\* the last sequence whose head qualifies is the one that selects
take_next_base_last(bases0) ==
    LET bases == NonEmpty(bases0)
        cand == {i \in 1..Len(bases) : Qualifies(bases, i)}
    IN  IF cand = {}
        THEN NoNext
        ELSE LET last == CHOOSE i \in cand : \A j \in cand : i >= j
                 head == bases[last][1]
             IN  [some |-> TRUE,
                  head |-> head,
                  bases |-> [j \in 1..Len(bases) |->
                                IF bases[j][1] = head
                                THEN Tail(bases[j]) ELSE bases[j]]]

\* the selected head is removed from the selecting sequence alone
take_next_base_own(bases0) ==
    LET bases == NonEmpty(bases0)
        cand == {i \in 1..Len(bases) : Qualifies(bases, i)}
    IN  IF cand = {}
        THEN NoNext
        ELSE LET first == CHOOSE i \in cand : \A j \in cand : i <= j
             IN  [some |-> TRUE,
                  head |-> bases[first][1],
                  bases |-> [j \in 1..Len(bases) |->
                                IF j = first THEN Tail(bases[j]) ELSE bases[j]]]

take_next_base(bases0) ==
    LET bases == NonEmpty(bases0)
        cand == {i \in 1..Len(bases) : Qualifies(bases, i)}
    IN  IF cand = {}
        THEN NoNext
        ELSE LET first == CHOOSE i \in cand : \A j \in cand : i <= j
                 head == bases[first][1]
             IN  [some |-> TRUE,
                  head |-> head,
                  bases |-> [j \in 1..Len(bases) |->
                                IF bases[j][1] = head
                                THEN Tail(bases[j]) ELSE bases[j]]]

RECURSIVE linearise_loop(_, _)
linearise_loop(bases, res) ==
    IF \A i \in 1..Len(bases) : bases[i] = <<>>
    THEN [some |-> TRUE, mro |-> res]
    ELSE LET nxt == take_next_base(bases)
         IN  IF nxt.some
             THEN linearise_loop(nxt.bases, Append(res, nxt.head))
             ELSE NoMro

linearise_mro(bases) == linearise_loop(bases, <<>>)

(***************************************************************************)
(* AttributeProtocol of an object handle: a class is searched along its    *)
(* full MRO, an instance in its own map, anything else has no attributes.  *)
(* NoHandle stands for None (no such attribute).                           *)
(***************************************************************************)
class_get_item(h, cls, name) ==
    IF name \in DOMAIN h[cls].dict THEN h[cls].dict[name] ELSE NoHandle

get_attr(h, obj, name) ==
    IF h[obj].kind = "Class"
    THEN LET full == _mro(h, obj).mro
             hits == {i \in 1..Len(full) : class_get_item(h, full[i], name) # NoHandle}
         IN  IF hits = {} THEN NoHandle
             ELSE class_get_item(h, full[CHOOSE i \in hits : \A j \in hits : i <= j], name)
    ELSE IF h[obj].kind = "Instance"
    THEN class_get_item(h, obj, name)
    ELSE NoHandle

has_attr(h, obj, name) == get_attr(h, obj, name) # NoHandle

(***************************************************************************)
(* Results of the operations. An operation ends with a value ("ok"), with  *)
(* the result of a call it hands to the eval layer ("invoke": call is the  *)
(* callable followed by its arguments), with an error result the caller    *)
(* receives ("type_error", "attribute_error", "raised" for the error of an *)
(* invoked callable) or by aborting the host ("panic": an unwrap of an     *)
(* absent value).                                                          *)
(***************************************************************************)
Res(op, status, value, subject, bases, call, name, flag) ==
    [op |-> op, status |-> status, value |-> value, subject |-> subject,
     bases |-> bases, call |-> call, name |-> name, flag |-> flag, lists |-> <<>>,
     rest |-> <<>>, attrs |-> EmptyDict, args |-> <<>>, invoked |-> <<>>]

NoResult == Res("none", "none", NoHandle, NoHandle, <<>>, <<>>, "", FALSE)

(***************************************************************************)
(* new: the MRO of the new class is the merge of the full MROs of the      *)
(* bases; both the MRO of a base and the merge are unwrapped.              *)
(***************************************************************************)
mros(h, bases) == [i \in 1..Len(bases) |-> _mro(h, bases[i]).mro]

new_mro(h, bases) == linearise_mro(mros(h, bases))

new_panics(h, bases) ==
    \/ \E i \in 1..Len(bases) : ~ _mro(h, bases[i]).some
    \/ ~ new_mro(h, bases).some

\* the first base takes the name of the class made from it
new_renames(op, t, name, bases, dict) ==
    IF new_panics(heap, bases)
    THEN /\ aborted' = TRUE
         /\ heap' = heap
         /\ result' = Res(op, "panic", NoHandle, t, bases, <<>>, name, FALSE)
    ELSE /\ heap' = Append([heap EXCEPT ![bases[1]].name = name],
                           Class(name, dict, new_mro(heap, bases).mro, t))
         /\ aborted' = FALSE
         /\ result' = Res(op, "ok", Len(heap) + 1, t, bases, <<>>, name, FALSE)

new(op, t, name, bases, dict) ==
    IF new_panics(heap, bases)
    THEN /\ aborted' = TRUE
         /\ heap' = heap
         /\ result' = Res(op, "panic", NoHandle, t, bases, <<>>, name, FALSE)
    ELSE /\ heap' = Append(heap, Class(name, dict, new_mro(heap, bases).mro, t))
         /\ aborted' = FALSE
         /\ result' = Res(op, "ok", Len(heap) + 1, t, bases, <<>>, name, FALSE)

Running == ~ aborted

\* new called by the runtime itself
New(t, name, bases, dict) ==
    /\ Running
    /\ new("new", t, name, bases, dict)

\* the universal root is not appended to the bases
type_new_nopush(t, name, bases, dict) ==
    /\ Running
    /\ IF ~ isinstance(heap, t, TypeType)
       THEN /\ result' = Res("type_new", "type_error", NoHandle, t, bases, <<>>,
                             name, FALSE)
            /\ UNCHANGED <<heap, aborted>>
       ELSE new("type_new", t, name, bases, dict)

\* type_new with four arguments: type(name, bases, dict)
type_new(t, name, bases, dict) ==
    /\ Running
    /\ IF ~ isinstance(heap, t, TypeType)
       THEN /\ result' = Res("type_new", "type_error", NoHandle, t, bases, <<>>,
                             name, FALSE)
            /\ UNCHANGED <<heap, aborted>>
       ELSE new("type_new", t, name, Append(bases, ObjectType), dict)

\* type_new with two arguments: type(obj)
type_of(t, obj) ==
    /\ Running
    /\ IF ~ isinstance(heap, t, TypeType)
       THEN result' = Res("type_of", "type_error", NoHandle, obj, <<>>, <<>>, "", FALSE)
       ELSE result' = Res("type_of", "ok", typ(heap, obj), obj, <<>>, <<>>, "", FALSE)
    /\ UNCHANGED <<heap, aborted>>

\* type_new with any other number of arguments
type_new_arity(t) ==
    /\ Running
    /\ result' = Res("type_new", "type_error", NoHandle, t, <<>>, <<>>, "", FALSE)
    /\ UNCHANGED <<heap, aborted>>

(***************************************************************************)
(* linearise_mro called directly on a worklist, as the tests of the module *)
(* do: result.lists is the worklist, result.bases the merge, result.flag   *)
(* whether there is one.                                                   *)
(***************************************************************************)
linearise_call(w) ==
    /\ Running
    /\ result' = [Res("linearise_mro", "ok", NoHandle, NoHandle,
                      linearise_mro(w).mro, <<>>, "", linearise_mro(w).some)
                  EXCEPT !.lists = w]
    /\ UNCHANGED <<heap, aborted>>

(***************************************************************************)
(* linearise_mro, one iteration of its loop at a time. While the call is   *)
(* in the loop ("running") result.rest is the worklist that remains and    *)
(* result.bases the handles pushed so far; the call returns Some(result)   *)
(* ("some") or None ("none"). result.lists is the worklist it was given.   *)
(***************************************************************************)
LinRes(status, w, rest, res) ==
    [Res("linearise_loop", status, NoHandle, NoHandle, res, <<>>, "", FALSE)
     EXCEPT !.lists = w, !.rest = rest]

InLoop == result.op = "linearise_loop" /\ result.status = "running"

linearise_enter(w) ==
    /\ Running
    /\ result = NoResult
    /\ result' = LinRes("running", w, w, <<>>)
    /\ UNCHANGED <<heap, aborted>>

\* the worklist is not replaced by what take_next_base hands back
linearise_step_keeps ==
    /\ Running
    /\ InLoop
    /\ result' =
          IF \A i \in 1..Len(result.rest) : result.rest[i] = <<>>
          THEN LinRes("some", result.lists, result.rest, result.bases)
          ELSE LET nxt == take_next_base(result.rest)
               IN  IF nxt.some
                   THEN LinRes("running", result.lists, result.rest,
                               Append(result.bases, nxt.head))
                   ELSE LinRes("none", result.lists, result.rest, <<>>)
    /\ UNCHANGED <<heap, aborted>>

\* a merge that is stuck returns what it has pushed so far
linearise_step_partial ==
    /\ Running
    /\ InLoop
    /\ result' =
          IF \A i \in 1..Len(result.rest) : result.rest[i] = <<>>
          THEN LinRes("some", result.lists, result.rest, result.bases)
          ELSE LET nxt == take_next_base(result.rest)
               IN  IF nxt.some
                   THEN LinRes("running", result.lists, nxt.bases,
                               Append(result.bases, nxt.head))
                   ELSE LinRes("some", result.lists, result.rest, result.bases)
    /\ UNCHANGED <<heap, aborted>>

linearise_step ==
    /\ Running
    /\ InLoop
    /\ result' =
          IF \A i \in 1..Len(result.rest) : result.rest[i] = <<>>
          THEN \* break; Some(result)
               LinRes("some", result.lists, result.rest, result.bases)
          ELSE LET nxt == take_next_base(result.rest)
               IN  IF nxt.some
                   THEN LinRes("running", result.lists, nxt.bases,
                               Append(result.bases, nxt.head))
                   ELSE \* return None
                        LinRes("none", result.lists, result.rest, <<>>)
    /\ UNCHANGED <<heap, aborted>>

(***************************************************************************)
(* Ancestry queries.                                                       *)
(***************************************************************************)
Issubclass(t, cls) ==
    /\ Running
    /\ result' = Res("issubclass", "ok", NoHandle, t, <<cls>>, <<>>, "",
                     issubclass(heap, t, cls))
    /\ UNCHANGED <<heap, aborted>>

Isinstance(obj, cls) ==
    /\ Running
    /\ result' = Res("isinstance", "ok", NoHandle, obj, <<cls>>, <<>>, "",
                     isinstance(heap, obj, cls))
    /\ UNCHANGED <<heap, aborted>>

(***************************************************************************)
(* The capabilities of the eval layer. invoke runs arbitrary code: its     *)
(* outcome is an input of the operation that calls it, an error or a       *)
(* returned handle. call_get_descriptor binds an attribute through the     *)
(* __get__ of its class, if it has one; get_method resolves a name on the  *)
(* class of an object and binds it.                                        *)
(***************************************************************************)
Raised == [ok |-> FALSE, value |-> NoHandle]

Returned(v) == [ok |-> TRUE, value |-> v]

\* does binding attr go through an invocation of __get__
binds_by_get(h, attr) == has_attr(h, typ(h, attr), "__get__")

\* get_method(obj, name): the attribute of the class of obj, or None
get_method(h, obj, name) == get_attr(h, typ(h, obj), name)

Instance(cls) == Plain("Instance", EmptyDict, cls)

(***************************************************************************)
(* type_call: __new__ of the class makes the object, __init__ of the       *)
(* object's class, if it resolves, initialises it and must return None.    *)
(*   args : the arguments of the call, the class first                     *)
(*   g : outcome of the __get__ invocations that bind __new__ and __init__ *)
(*   n : outcome of invoking __new__; the handle after the last one of the *)
(*       heap stands for a newly allocated instance of cls                 *)
(*   r : outcome of invoking __init__                                      *)
(* result.call lists the callables invoked, result.bases what they         *)
(* returned, result.invoked the method each was invoked as and the         *)
(* arguments it was given; result.flag tells whether __new__ was bound.    *)
(***************************************************************************)
CallRes(status, value, cls, call, rets) ==
    Res("type_call", status, value, cls, rets, call, "", FALSE)

Invocation(method, args) == [method |-> method, args |-> args]

CallLog(res, args, bound, invoked) ==
    [res EXCEPT !.args = args, !.flag = bound, !.invoked = invoked]

\* the heap after __new__ returned n
after_new(h, cls, n) ==
    IF n.ok /\ n.value = Len(h) + 1 THEN Append(h, Instance(cls)) ELSE h

\* the value of __init__ is not checked
type_call_unchecked(args0, g, n, r) ==
    LET cls == Head(args0)
        args == Tail(args0)
        new_attr == get_attr(heap, cls, "__new__")
        h2 == after_new(heap, cls, n)
        init == get_method(h2, n.value, "__init__")
    IN  /\ Running
        /\ new_attr # NoHandle
        /\ g.ok /\ n.ok
        /\ heap' = h2
        /\ aborted' = FALSE
        /\ result' = IF init = NoHandle
                     THEN CallLog(CallRes("ok", n.value, cls, <<new_attr>>, <<n.value>>),
                                  args0, TRUE, <<Invocation("__new__", args)>>)
                     ELSE IF ~ r.ok
                     THEN CallLog(CallRes("raised", NoHandle, cls, <<new_attr, init>>,
                                          <<n.value>>),
                                  args0, TRUE, <<Invocation("__new__", args),
                                                 Invocation("__init__", args)>>)
                     ELSE CallLog(CallRes("ok", n.value, cls, <<new_attr, init>>,
                                          <<n.value, r.value>>),
                                  args0, TRUE, <<Invocation("__new__", args),
                                                 Invocation("__init__", args)>>)

\* __init__ is handed the arguments of the call with the class still in front
type_call_unshifted(args0, g, n, r) ==
    LET cls == Head(args0)
        args == Tail(args0)
        new_attr == get_attr(heap, cls, "__new__")
        h2 == after_new(heap, cls, n)
        init == get_method(h2, n.value, "__init__")
    IN  /\ Running
        /\ new_attr # NoHandle
        /\ g.ok /\ n.ok
        /\ heap' = h2
        /\ aborted' = FALSE
        /\ result' = IF init = NoHandle
                     THEN CallLog(CallRes("ok", n.value, cls, <<new_attr>>, <<n.value>>),
                                  args0, TRUE, <<Invocation("__new__", args)>>)
                     ELSE IF ~ r.ok
                     THEN CallLog(CallRes("raised", NoHandle, cls, <<new_attr, init>>,
                                          <<n.value>>),
                                  args0, TRUE, <<Invocation("__new__", args),
                                                 Invocation("__init__", args0)>>)
                     ELSE IF r.value # NoneObj
                     THEN CallLog(CallRes("type_error", NoHandle, cls, <<new_attr, init>>,
                                          <<n.value, r.value>>),
                                  args0, TRUE, <<Invocation("__new__", args),
                                                 Invocation("__init__", args0)>>)
                     ELSE CallLog(CallRes("ok", n.value, cls, <<new_attr, init>>,
                                          <<n.value, r.value>>),
                                  args0, TRUE, <<Invocation("__new__", args),
                                                 Invocation("__init__", args0)>>)

type_call(args0, g, n, r) ==
    LET cls == Head(args0)   \* args.shift()
        args == Tail(args0)
        new_attr == get_attr(heap, cls, "__new__")
        h2 == after_new(heap, cls, n)
        init == get_method(h2, n.value, "__init__")
    IN  /\ Running
        /\ IF new_attr = NoHandle
           THEN \* cls.get_attr("__new__").unwrap()
                /\ aborted' = TRUE
                /\ heap' = heap
                /\ result' = CallLog(CallRes("panic", NoHandle, cls, <<>>, <<>>),
                                     args0, FALSE, <<>>)
           ELSE IF binds_by_get(heap, new_attr) /\ ~ g.ok
           THEN \* call_get_descriptor(new, cls)?
                /\ result' = CallLog(CallRes("raised", NoHandle, cls, <<>>, <<>>),
                                     args0, FALSE, <<>>)
                /\ UNCHANGED <<heap, aborted>>
           ELSE IF ~ n.ok
           THEN \* vm.invoke(new_wrapped, args.clone())?
                /\ result' = CallLog(CallRes("raised", NoHandle, cls, <<new_attr>>, <<>>),
                                     args0, TRUE, <<Invocation("__new__", args)>>)
                /\ UNCHANGED <<heap, aborted>>
           ELSE /\ heap' = h2
                /\ aborted' = FALSE
                /\ result' =
                     IF \/ init = NoHandle
                        \/ binds_by_get(h2, init) /\ ~ g.ok
                     THEN \* no __init__ resolves: the object is returned
                          CallLog(CallRes("ok", n.value, cls, <<new_attr>>, <<n.value>>),
                                  args0, TRUE, <<Invocation("__new__", args)>>)
                     ELSE IF ~ r.ok
                     THEN \* vm.invoke(init, args)?
                          CallLog(CallRes("raised", NoHandle, cls, <<new_attr, init>>,
                                          <<n.value>>),
                                  args0, TRUE, <<Invocation("__new__", args),
                                                 Invocation("__init__", args)>>)
                     ELSE IF r.value # NoneObj
                     THEN \* "__init__ must return None"
                          CallLog(CallRes("type_error", NoHandle, cls, <<new_attr, init>>,
                                          <<n.value, r.value>>),
                                  args0, TRUE, <<Invocation("__new__", args),
                                                 Invocation("__init__", args)>>)
                     ELSE CallLog(CallRes("ok", n.value, cls, <<new_attr, init>>,
                                          <<n.value, r.value>>),
                                  args0, TRUE, <<Invocation("__new__", args),
                                                 Invocation("__init__", args)>>)

(***************************************************************************)
(* type_getattribute: the lookup of a name on a class. A result that is    *)
(* the result of an invocation is recorded as the call made: the callable  *)
(* followed by its arguments (the name handed to __getattr__ is            *)
(* result.name).                                                           *)
(***************************************************************************)
AttrRes(status, value, cls, call, name) ==
    Res("type_getattribute", status, value, cls, <<>>, call, name, FALSE)

\* call_get_descriptor(attr, obj), as the result of type_getattribute
call_get_descriptor(h, attr, obj, name) ==
    IF binds_by_get(h, attr)
    THEN AttrRes("invoke", NoHandle, obj,
                 <<get_attr(h, typ(h, attr), "__get__"), attr, obj, typ(h, obj)>>, name)
    ELSE AttrRes("ok", attr, obj, <<>>, name)

\* the __getattr__ of the subject is tried before the plain metatype attribute
getattribute_fallback_early(h, cls, name) ==
    LET mcl == typ(h, cls)
        mattr == get_attr(h, mcl, name)
        cattr == get_attr(h, cls, name)
    IN  IF mattr # NoHandle /\ has_attr(h, typ(h, mattr), "__set__")
           /\ has_attr(h, typ(h, mattr), "__get__")
        THEN AttrRes("invoke", NoHandle, cls,
                     <<get_attr(h, typ(h, mattr), "__get__"), mattr, cls, mcl>>, name)
        ELSE IF cattr # NoHandle /\ has_attr(h, typ(h, cattr), "__get__")
        THEN AttrRes("invoke", NoHandle, cls,
                     <<get_attr(h, typ(h, cattr), "__get__"), cattr, NoneObj, cls>>, name)
        ELSE IF cattr # NoHandle
        THEN AttrRes("ok", cattr, cls, <<>>, name)
        ELSE IF get_attr(h, cls, "__getattr__") # NoHandle
        THEN AttrRes("invoke", NoHandle, cls,
                     <<get_attr(h, cls, "__getattr__"), mcl>>, name)
        ELSE IF mattr # NoHandle
        THEN call_get_descriptor(h, mattr, cls, name)
        ELSE AttrRes("attribute_error", NoHandle, cls, <<>>, name)

\* the metatype attribute decides as soon as its class has __set__
getattribute_set_alone(h, cls, name) ==
    LET mcl == typ(h, cls)
        mattr == get_attr(h, mcl, name)
        cattr == get_attr(h, cls, name)
    IN  IF mattr # NoHandle /\ has_attr(h, typ(h, mattr), "__set__")
        THEN AttrRes("invoke", NoHandle, cls,
                     <<get_attr(h, typ(h, mattr), "__get__"), mattr, cls, mcl>>, name)
        ELSE IF cattr # NoHandle /\ has_attr(h, typ(h, cattr), "__get__")
        THEN AttrRes("invoke", NoHandle, cls,
                     <<get_attr(h, typ(h, cattr), "__get__"), cattr, NoneObj, cls>>, name)
        ELSE IF cattr # NoHandle
        THEN AttrRes("ok", cattr, cls, <<>>, name)
        ELSE IF mattr # NoHandle
        THEN call_get_descriptor(h, mattr, cls, name)
        ELSE IF get_attr(h, cls, "__getattr__") # NoHandle
        THEN AttrRes("invoke", NoHandle, cls,
                     <<get_attr(h, cls, "__getattr__"), mcl>>, name)
        ELSE AttrRes("attribute_error", NoHandle, cls, <<>>, name)

\* the attributes of the subject are looked at before those of the metatype
getattribute_subject_first(h, cls, name) ==
    LET mcl == typ(h, cls)
        mattr == get_attr(h, mcl, name)
        cattr == get_attr(h, cls, name)
    IN  IF cattr # NoHandle /\ has_attr(h, typ(h, cattr), "__get__")
        THEN AttrRes("invoke", NoHandle, cls,
                     <<get_attr(h, typ(h, cattr), "__get__"), cattr, NoneObj, cls>>, name)
        ELSE IF cattr # NoHandle
        THEN AttrRes("ok", cattr, cls, <<>>, name)
        ELSE IF mattr # NoHandle /\ has_attr(h, typ(h, mattr), "__set__")
                /\ has_attr(h, typ(h, mattr), "__get__")
        THEN AttrRes("invoke", NoHandle, cls,
                     <<get_attr(h, typ(h, mattr), "__get__"), mattr, cls, mcl>>, name)
        ELSE IF mattr # NoHandle
        THEN call_get_descriptor(h, mattr, cls, name)
        ELSE IF get_attr(h, cls, "__getattr__") # NoHandle
        THEN AttrRes("invoke", NoHandle, cls,
                     <<get_attr(h, cls, "__getattr__"), mcl>>, name)
        ELSE AttrRes("attribute_error", NoHandle, cls, <<>>, name)

getattribute(h, cls, name) ==
    LET mcl == typ(h, cls)
        mattr == get_attr(h, mcl, name)
        cattr == get_attr(h, cls, name)
    IN  IF mattr # NoHandle /\ has_attr(h, typ(h, mattr), "__set__")
           /\ has_attr(h, typ(h, mattr), "__get__")
        THEN AttrRes("invoke", NoHandle, cls,
                     <<get_attr(h, typ(h, mattr), "__get__"), mattr, cls, mcl>>, name)
        ELSE IF cattr # NoHandle /\ has_attr(h, typ(h, cattr), "__get__")
        THEN AttrRes("invoke", NoHandle, cls,
                     <<get_attr(h, typ(h, cattr), "__get__"), cattr, NoneObj, cls>>, name)
        ELSE IF cattr # NoHandle
        THEN AttrRes("ok", cattr, cls, <<>>, name)
        ELSE IF mattr # NoHandle
        THEN call_get_descriptor(h, mattr, cls, name)
        ELSE IF get_attr(h, cls, "__getattr__") # NoHandle
        THEN AttrRes("invoke", NoHandle, cls,
                     <<get_attr(h, cls, "__getattr__"), mcl>>, name)
        ELSE AttrRes("attribute_error", NoHandle, cls, <<>>, name)

type_getattribute(cls, name) ==
    /\ Running
    /\ result' = IF ~ isinstance(heap, cls, ObjectType)
                 THEN AttrRes("type_error", NoHandle, cls, <<>>, name)
                 ELSE getattribute(heap, cls, name)
    /\ UNCHANGED <<heap, aborted>>

(***************************************************************************)
(* get_attributes: the attribute maps of the classes of the full MRO of    *)
(* the object's type, inserted root-most first, then the map of the object *)
(* itself if it is an instance. Every insertion replaces an older binding  *)
(* of the same name. result.attrs is the map returned.                     *)
(***************************************************************************)
\* HashMap::insert of every element of dict into attributes
insert_all(attributes, dict) ==
    [n \in DOMAIN attributes \cup DOMAIN dict |->
        IF n \in DOMAIN dict THEN dict[n] ELSE attributes[n]]

Reverse(s) == [i \in 1..Len(s) |-> s[Len(s) + 1 - i]]

\* base_classes: the full MRO of the object's type, unwrapped
base_classes(h, obj) == _mro(h, typ(h, obj))

RECURSIVE class_attributes(_, _, _)
class_attributes(h, bcs, attributes) ==
    IF bcs = <<>> THEN attributes
    ELSE class_attributes(h, Tail(bcs),
            IF h[bcs[1]].kind = "Class"
            THEN insert_all(attributes, h[bcs[1]].dict) ELSE attributes)

\* the classes are walked most specific first
get_attributes_unreversed(h, obj) ==
    LET attributes == class_attributes(h, base_classes(h, obj).mro, EmptyDict)
    IN  IF h[obj].kind = "Instance"
        THEN insert_all(attributes, h[obj].dict) ELSE attributes

get_attributes(h, obj) ==
    LET attributes == class_attributes(h, Reverse(base_classes(h, obj).mro), EmptyDict)
    IN  IF h[obj].kind = "Instance"
        THEN insert_all(attributes, h[obj].dict) ELSE attributes

Get_attributes(obj) ==
    /\ Running
    /\ IF ~ base_classes(heap, obj).some
       THEN /\ aborted' = TRUE
            /\ result' = Res("get_attributes", "panic", NoHandle, obj, <<>>, <<>>,
                             "", FALSE)
       ELSE /\ aborted' = FALSE
            /\ result' = [Res("get_attributes", "ok", NoHandle, obj, <<>>, <<>>,
                              "", FALSE)
                          EXCEPT !.attrs = get_attributes(heap, obj)]
    /\ heap' = heap

(***************************************************************************)
(* set_attr of the AttributeProtocol: user code and __init__ bind a name   *)
(* in the attribute map of an instance or of a class.                      *)
(***************************************************************************)
set_attr(obj, name, value) ==
    /\ Running
    /\ heap[obj].kind \in {"Instance", "Class"}
    /\ heap' = [heap EXCEPT ![obj].dict = insert_all(@, [n \in {name} |-> value])]
    /\ result' = Res("set_attr", "ok", NoHandle, obj, <<>>, <<>>, name, FALSE)
    /\ aborted' = FALSE

(***************************************************************************)
(* type_mro, get_type_name and type_repr. The tuple and the string they    *)
(* return are result.bases and result.name.                                *)
(***************************************************************************)
type_mro(cls, t) ==
    /\ Running
    /\ result' =
          IF ~ isinstance(heap, cls, TypeType) \/ ~ isinstance(heap, t, TypeType)
          THEN Res("type_mro", "type_error", NoHandle, cls, <<>>, <<>>, "", FALSE)
          ELSE IF _mro(heap, cls).some
          THEN Res("type_mro", "ok", NoHandle, cls, _mro(heap, cls).mro, <<>>, "", FALSE)
          ELSE \* "Only classes have an MRO."
               Res("type_mro", "type_error", NoHandle, cls, <<>>, <<>>, "", FALSE)
    /\ UNCHANGED <<heap, aborted>>

\* get_type_name panics on a handle that is no class
get_type_name(h, t) ==
    IF h[t].kind = "Class"
    THEN [some |-> TRUE, name |-> h[t].name]
    ELSE [some |-> FALSE, name |-> ""]

type_repr(obj) ==
    /\ Running
    /\ IF ~ isinstance(heap, obj, TypeType)
       THEN /\ result' = Res("type_repr", "type_error", NoHandle, obj, <<>>, <<>>,
                             "", FALSE)
            /\ aborted' = FALSE
       ELSE IF ~ get_type_name(heap, obj).some
       THEN /\ result' = Res("type_repr", "panic", NoHandle, obj, <<>>, <<>>, "", FALSE)
            /\ aborted' = TRUE
       ELSE /\ result' = Res("type_repr", "ok", NoHandle, obj, <<>>, <<>>,
                             "<class '" \o get_type_name(heap, obj).name \o "'>", FALSE)
            /\ aborted' = FALSE
    /\ heap' = heap

(***************************************************************************)
(* Inputs of the runs.                                                     *)
(***************************************************************************)
Names == {"A"}

\* names of the ancestry-query runs: two classes may share one
QueryNames == {"A", "B"}

Created(h) == Len(h) - Len(Bootstrap)

\* metatypes handed to a construction: the type type and its subclasses
Metatypes(h) == {c \in Classes(h) : issubclass(h, c, TypeType)}

\* the construction fits the heap of the run: a merge that fails allocates
\* nothing, so it is tried on a full heap too
Fits(max, bases) ==
    \/ Created(heap) < max
    \/ /\ \A i \in 1..Len(bases) : _mro(heap, bases[i]).some
       /\ ~ new_mro(heap, bases).some

\* handles offered as bases: every class, and None as the handle that is no type
BaseHandles(h) == Classes(h) \cup {NoneObj}

\* worklists over the handles of the heap
Worklists(h) == SeqsOf(SeqsOf(Handles(h), 0, MaxLinLen), 0, MaxLinSeqs)

Init ==
    /\ heap = Bootstrap
    /\ aborted = FALSE
    /\ result = NoResult

(***************************************************************************)
(* Construction runs: any mix of new and type_new. The runtime calls new   *)
(* with a non-empty list of types (the type_new layer appends the          *)
(* universal root for it); type_new takes whatever handles its caller      *)
(* passes as bases.                                                        *)
(***************************************************************************)
Next ==
    \/ \E t \in Metatypes(heap), name \in Names,
          bases \in SeqsOf(Classes(heap), 1, MaxBases) :
            /\ Fits(MaxTypes, bases)
            /\ New(t, name, bases, EmptyDict)
    \/ \E t \in Metatypes(heap) \cup {NoneObj}, name \in Names,
          bases \in SeqsOf(BaseHandles(heap), 0, MaxBases) :
            /\ Fits(MaxTypes, Append(bases, ObjectType))
            /\ type_new(t, name, bases, EmptyDict)
    \/ \E w \in Worklists(heap) :
            /\ Created(heap) <= MaxLinHeap
            /\ linearise_call(w)

Spec == Init /\ [][Next]_vars

(***************************************************************************)
(* Ancestry-query runs: classes built by type_new, then queried.           *)
(***************************************************************************)
NextQuery ==
    \/ \E name \in QueryNames, bases \in SeqsOf(Classes(heap), 0, MaxBases) :
            /\ Fits(MaxQueryTypes, Append(bases, ObjectType))
            /\ type_new(TypeType, name, bases, EmptyDict)
    \/ \E t \in Classes(heap), cls \in Classes(heap) : Issubclass(t, cls)
    \/ \E obj \in Handles(heap), cls \in Classes(heap) : Isinstance(obj, cls)
    \/ \E t \in {TypeType, NoneObj}, obj \in Handles(heap) : type_of(t, obj)
    \/ type_new_arity(TypeType)

SpecQuery == Init /\ [][NextQuery]_vars

(***************************************************************************)
(* Instantiation runs: classes with or without an __init__ of their own,   *)
(* called to make instances.                                               *)
(***************************************************************************)
CallDicts == {EmptyDict, [n \in {"__init__"} |-> FnObj]}

\* what __new__ may return: a new instance of the class, None, or an object
\* made earlier in the run
NewOutcomes(h) ==
    {Raised} \cup {Returned(v) : v \in {NoneObj, Len(h) + 1}
                                     \cup {o \in Handles(h) : o > Len(Bootstrap)}}

\* what __init__ may return: None, or a value that is not None
InitOutcomes == {Raised, Returned(NoneObj), Returned(FnObj)}

NextCall ==
    \/ \E bases \in SeqsOf(Classes(heap), 0, 1), dict \in CallDicts :
            /\ Created(heap) < MaxCallObjs
            /\ type_new(TypeType, "A", bases, dict)
    \/ \E cls \in Classes(heap) \ Metatypes(heap), g \in {Raised, Returned(FnObj)},
          n \in NewOutcomes(heap), r \in InitOutcomes :
            /\ Created(heap) < MaxCallObjs \/ ~ n.ok \/ n.value <= Len(heap)
            /\ type_call(<<cls>>, g, n, r)

SpecCall == Init /\ [][NextCall]_vars

(***************************************************************************)
(* Attribute-lookup runs: metaclasses that carry descriptor capabilities   *)
(* or an attribute x, classes of those metaclasses with or without an x    *)
(* and a __getattr__ of their own, then lookups of a name.                 *)
(***************************************************************************)
Dict1(name, v) == [n \in {name} |-> v]

DescriptorDicts ==
    {[n \in {"__get__", "__set__"} |-> FnObj], Dict1("__get__", FnObj),
     Dict1("__set__", FnObj)}

AttrInputs(h) ==
    {[t |-> TypeType, bases |-> <<TypeType>>, dict |-> d] :
        d \in DescriptorDicts
               \cup {Dict1("x", o) : o \in {c \in Handles(h) : c > Len(Bootstrap)}}}
    \cup
    {[t |-> t, bases |-> <<>>, dict |-> d] :
        t \in Metatypes(h),
        d \in {EmptyDict, Dict1("x", NoneObj), Dict1("__getattr__", FnObj)}}

AttrNames == {"x", "y"}

NextAttr ==
    \/ \E in \in AttrInputs(heap) :
            /\ Created(heap) < MaxAttrObjs
            /\ type_new(in.t, "A", in.bases, in.dict)
    \/ \E cls \in Classes(heap), name \in AttrNames : type_getattribute(cls, name)

SpecAttr == Init /\ [][NextAttr]_vars

(***************************************************************************)
(* Attribute-flattening runs: classes that bind x or y, instances of them  *)
(* whose own map is written by set_attr, and get_attributes of any object. *)
(***************************************************************************)
FlatNames == {"x", "y"}

FlatValues == {NoneObj, FnObj}

FlatDicts == {EmptyDict} \cup {Dict1(n, v) : n \in FlatNames, v \in FlatValues}

\* __new__ of object allocates the instance, no __init__ is defined
Allocate(cls) ==
    type_call(<<cls>>, Returned(FnObj), Returned(Len(heap) + 1), Returned(NoneObj))

NextFlat ==
    \/ \E bases \in SeqsOf(Classes(heap) \ Metatypes(heap), 0, 1), dict \in FlatDicts :
            /\ Created(heap) < MaxFlatObjs
            /\ type_new(TypeType, "A", bases, dict)
    \/ \E cls \in Classes(heap) \ Metatypes(heap) :
            /\ Created(heap) < MaxFlatObjs
            /\ Allocate(cls)
    \/ \E obj \in Handles(heap), name \in FlatNames, value \in FlatValues :
            /\ heap[obj].kind = "Instance"
            /\ set_attr(obj, name, value)
    \/ \E obj \in Handles(heap) : Get_attributes(obj)

SpecFlat == Init /\ [][NextFlat]_vars

(***************************************************************************)
(* Mixed runs: every operation of the type object on one heap, with        *)
(* set_attr as the user code that rebinds the attributes of a class.       *)
(***************************************************************************)
FrameDicts == {EmptyDict, Dict1("x", NoneObj)}

NextFrame ==
    \/ \E t \in Metatypes(heap), bases \in SeqsOf(Classes(heap), 1, MaxBases),
          dict \in FrameDicts :
            /\ Fits(MaxFrameObjs, bases)
            /\ New(t, "A", bases, dict)
    \/ \E t \in Metatypes(heap), bases \in SeqsOf(Classes(heap), 0, 1),
          dict \in FrameDicts :
            /\ Fits(MaxFrameObjs, Append(bases, ObjectType))
            /\ type_new(t, "A", bases, dict)
    \/ \E cls \in Classes(heap) \ Metatypes(heap),
          n \in {Raised, Returned(Len(heap) + 1)}, r \in InitOutcomes :
            /\ Created(heap) < MaxFrameObjs \/ ~ n.ok
            /\ type_call(<<cls>>, Returned(FnObj), n, r)
    \/ \E cls \in Classes(heap), name \in AttrNames : type_getattribute(cls, name)
    \/ \E obj \in Handles(heap), cls \in Classes(heap) : Isinstance(obj, cls)
    \/ \E t \in Classes(heap), cls \in Classes(heap) : Issubclass(t, cls)
    \/ \E obj \in Handles(heap) : Get_attributes(obj)
    \/ \E cls \in Handles(heap) : type_mro(cls, TypeType)
    \/ \E obj \in Handles(heap) : type_repr(obj)
    \/ \E obj \in Classes(heap), value \in FlatValues :
            /\ obj > Len(Bootstrap)
            /\ set_attr(obj, "x", value)

SpecFrame == Init /\ [][NextFrame]_vars

(***************************************************************************)
(* Merge runs: one call of linearise_mro, a pure function, on a worklist   *)
(* over the bootstrap handles. The call is sequential code: once entered,  *)
(* its loop keeps being executed (weak fairness of the iteration).         *)
(***************************************************************************)
StepWorklists(h) == SeqsOf(SeqsOf(Handles(h), 0, MaxStepLen), 0, MaxStepSeqs)

NextLin ==
    \/ /\ result = NoResult
       /\ \E w \in StepWorklists(heap) : linearise_enter(w)
    \/ linearise_step

SpecLin == Init /\ [][NextLin]_vars

SpecLinFair == SpecLin /\ WF_vars(linearise_step)

(***************************************************************************)
(* Protocol runs: classes whose __new__ is the allocator of object or an   *)
(* attribute of their own, which is bound through __get__ when its class   *)
(* has one, called with or without a constructor argument.                 *)
(***************************************************************************)
ProtoDicts(h) ==
    {EmptyDict, Dict1("__init__", FnObj), Dict1("__get__", FnObj)}
    \cup {Dict1("__new__", o) : o \in {c \in Handles(h) : c > Len(Bootstrap)}}

ProtoArgs == {<<>>, <<NoneObj>>}

NextProto ==
    \/ \E dict \in ProtoDicts(heap) :
            /\ Created(heap) < MaxProtoObjs
            /\ type_new(TypeType, "A", <<>>, dict)
    \/ \E cls \in Classes(heap) \ Metatypes(heap), args \in ProtoArgs,
          g \in {Raised, Returned(FnObj)},
          n \in {Raised, Returned(NoneObj), Returned(Len(heap) + 1)},
          r \in InitOutcomes :
            /\ Created(heap) < MaxProtoObjs \/ ~ n.ok \/ n.value <= Len(heap)
            /\ type_call(<<cls>> \o args, g, n, r)

SpecProto == Init /\ [][NextProto]_vars

(***************************************************************************)
(* Helpers of the properties.                                              *)
(***************************************************************************)
FullMro(h, c) == <<c>> \o h[c].mro

NoDuplicates(s) == \A i, j \in 1..Len(s) : s[i] = s[j] => i = j

Positions(s, x) == {i \in 1..Len(s) : s[i] = x}

\* x occurs in s, and no occurrence of y comes before the first x
Before(s, x, y) ==
    /\ Positions(s, x) # {}
    /\ \A j \in Positions(s, y) : \E i \in Positions(s, x) : i < j

RECURSIVE IsSubseq(_, _)
IsSubseq(a, b) ==
    IF a = <<>> THEN TRUE
    ELSE IF b = <<>> THEN FALSE
    ELSE IF a[1] = b[1] THEN IsSubseq(Tail(a), Tail(b))
    ELSE IsSubseq(a, Tail(b))

Constructed == result.op \in {"new", "type_new"} /\ result.status = "ok"

AllTypes(h, bases) == \A i \in 1..Len(bases) : h[bases[i]].kind = "Class"

\* the full MROs of the bases of the last construction cannot be merged
MergeFails ==
    /\ result.op \in {"new", "type_new"}
    /\ result.status # "type_error"
    /\ AllTypes(heap, result.bases)
    /\ ~ new_mro(heap, result.bases).some

(***************************************************************************)
(* C1: a construction whose base MROs cannot be merged gives its caller an *)
(* error result: the host is not aborted (and no type is created).         *)
(* The code unwraps the failed merge instead.                              *)
(***************************************************************************)
C1_MergeFailureIsAnError ==
    MergeFails => /\ ~ aborted
                  /\ result.status \notin {"panic", "ok"}
                  /\ result.value = NoHandle

(***************************************************************************)
(* C2: the direct bases of a constructed type appear in its MRO in the     *)
(* relative order in which they were given. The code merges the MROs of    *)
(* the bases without the base list itself.                                 *)
(***************************************************************************)
C2_BasesKeepTheirOrder ==
    Constructed =>
        \A i, j \in 1..Len(result.bases) :
            (i < j /\ result.bases[i] # result.bases[j]) =>
                \E p, q \in 1..Len(heap[result.value].mro) :
                    /\ p < q
                    /\ heap[result.value].mro[p] = result.bases[i]
                    /\ heap[result.value].mro[q] = result.bases[j]

(***************************************************************************)
(* C3: type_new given a base that is no type answers with a type error     *)
(* and does not abort the host. The code unwraps the absent MRO instead.   *)
(***************************************************************************)
NonTypeBase ==
    /\ result.op = "type_new"
    /\ isinstance(heap, result.subject, TypeType)
    /\ ~ AllTypes(heap, result.bases)

C3_NonTypeBaseIsATypeError ==
    NonTypeBase => ~ aborted /\ result.status = "type_error"

(***************************************************************************)
(* C4: a merge that succeeds, computed by a construction or by a direct    *)
(* call, holds exactly the handles of its input sequences, each once; the  *)
(* full MRO of every type has no duplicate and starts with the type.       *)
(***************************************************************************)
C4_MergeIsExactlyOnce ==
    /\ (result.op = "linearise_mro" /\ result.flag) =>
          /\ NoDuplicates(result.bases)
          /\ Range(result.bases) =
                UNION {Range(result.lists[i]) : i \in 1..Len(result.lists)}
    /\ Constructed =>
          LET in == mros(heap, result.bases)
              out == heap[result.value].mro
          IN  /\ NoDuplicates(out)
              /\ Range(out) = UNION {Range(in[i]) : i \in 1..Len(in)}
    /\ \A c \in Classes(heap) :
          /\ _mro(heap, c).mro[1] = c
          /\ NoDuplicates(_mro(heap, c).mro)

\* a construction from two different bases that share an ancestor
C4_Witness ==
    /\ Constructed
    /\ Len(result.bases) >= 2
    /\ result.bases[1] # result.bases[2]
    /\ Len(heap[result.bases[1]].mro) >= 1
    /\ Len(heap[result.bases[2]].mro) >= 1
    /\ Len(heap[result.value].mro) >= 3

(***************************************************************************)
(* C5: monotonicity. For every type T and every U of its full MRO, the     *)
(* full MRO of U is an order-preserving subsequence of that of T, and no   *)
(* type of the MRO comes before one of its own subclasses in it.           *)
(***************************************************************************)
C5_Monotonic ==
    \A t \in Classes(heap) :
        \A u \in Range(FullMro(heap, t)) :
            /\ IsSubseq(FullMro(heap, u), FullMro(heap, t))
            /\ \A v \in Range(FullMro(heap, t)) :
                  (v # u /\ issubclass(heap, v, u)) => Before(FullMro(heap, t), v, u)

\* a type whose MRO holds a base and a subclass of that base, given base first
C5_Witness ==
    /\ Constructed
    /\ Len(result.bases) >= 2
    /\ result.bases[1] # result.bases[2]
    /\ issubclass(heap, result.bases[2], result.bases[1])
    /\ result.bases[1] # ObjectType

(***************************************************************************)
(* C6: the universal root is the last element of the full MRO of every     *)
(* type created through type_new.                                          *)
(***************************************************************************)
Last(s) == s[Len(s)]

C6_RootIsLast ==
    (result.op = "type_new" /\ result.status = "ok") =>
        Last(FullMro(heap, result.value)) = ObjectType

\* type_new over a base that is itself a created type with two bases
C6_Witness ==
    /\ result.op = "type_new"
    /\ result.status = "ok"
    /\ \E i \in 1..Len(result.bases) :
          /\ result.bases[i] > Len(Bootstrap)
          /\ Len(heap[result.bases[i]].mro) >= 3

(***************************************************************************)
(* C7: a data descriptor (its class has __get__ and __set__) found under   *)
(* the name on the metatype of the subject decides the lookup: the result  *)
(* is the invocation of that __get__ with (attribute, subject, metatype),  *)
(* whatever the subject itself holds under the name.                       *)
(***************************************************************************)
Looked == result.op = "type_getattribute" /\ result.status # "type_error"

MetaAttr == get_attr(heap, typ(heap, result.subject), result.name)

MetaDataDescriptor ==
    /\ Looked
    /\ MetaAttr # NoHandle
    /\ has_attr(heap, typ(heap, MetaAttr), "__get__")
    /\ has_attr(heap, typ(heap, MetaAttr), "__set__")

C7_MetaDataDescriptorWins ==
    MetaDataDescriptor =>
        /\ result.status = "invoke"
        /\ result.value = NoHandle
        /\ result.call = <<get_attr(heap, typ(heap, MetaAttr), "__get__"), MetaAttr,
                           result.subject, typ(heap, result.subject)>>

\* the subject holds another attribute under the same name
C7_Witness ==
    /\ MetaDataDescriptor
    /\ get_attr(heap, result.subject, result.name) \notin {NoHandle, MetaAttr}

(***************************************************************************)
(* C8: when __init__ of the object made by __new__ resolves and returns a  *)
(* value, type_call fails with the type error "__init__ must return None"  *)
(* if the value is not None, and returns the very object of __new__ if it  *)
(* is None.                                                                *)
(***************************************************************************)
InitReturned ==
    /\ result.op = "type_call"
    /\ Len(result.call) = 2
    /\ Len(result.bases) = 2

C8_InitMustReturnNone ==
    InitReturned =>
        /\ result.call[2] = get_method(heap, result.bases[1], "__init__")
        /\ IF result.bases[2] # NoneObj
           THEN result.status = "type_error" /\ result.value = NoHandle
           ELSE result.status = "ok" /\ result.value = result.bases[1]

\* __init__ of a new instance returned a value that is not None
C8_Witness ==
    /\ InitReturned
    /\ result.bases[2] # NoneObj
    /\ result.bases[1] = Len(heap)
    /\ result.status = "type_error"

(***************************************************************************)
(* C9: an object returned by a successful type_call(T) is an instance of   *)
(* exactly the types of the full MRO of T.                                 *)
(* As stated it fails: type_call returns whatever __new__ returned, and    *)
(* that may be an object of another type. It holds for the objects whose   *)
(* type is T.                                                              *)
(***************************************************************************)
Called == result.op = "type_call" /\ result.status = "ok"

InstanceOfExactly(obj, t) ==
    \A v \in Classes(heap) :
        isinstance(heap, obj, v) <=> v \in Range(FullMro(heap, t))

C9_CalledIsInstance == Called => InstanceOfExactly(result.value, result.subject)

(***************************************************************************)
(* C9, amended: an object returned by a successful type_call(T) whose type *)
(* is T is an instance of exactly the types of the full MRO of T.          *)
(***************************************************************************)
C9_CalledOfTypeIsInstance ==
    (Called /\ typ(heap, result.value) = result.subject) =>
        InstanceOfExactly(result.value, result.subject)

\* a new instance of a class that has a created ancestor, next to an unrelated class
C9_Witness ==
    /\ Called
    /\ result.value = Len(heap)
    /\ typ(heap, result.value) = result.subject
    /\ Len(heap[result.subject].mro) >= 2
    /\ \E v \in Classes(heap) : v \notin Range(FullMro(heap, result.subject))

(***************************************************************************)
(* C10: issubclass(T, U) is true exactly when U is, by identity, a member  *)
(* of the full MRO of T: true of every type and itself, false of two       *)
(* unrelated types even when they share their name.                        *)
(***************************************************************************)
C10_IssubclassIsIdentity ==
    /\ result.op = "issubclass" =>
          result.flag = (result.bases[1] \in {result.subject}
                                               \cup Range(heap[result.subject].mro))
    /\ \A t \in Classes(heap) : issubclass(heap, t, t)

\* two distinct created types of one name, the first no ancestor of the second
C10_Witness ==
    /\ result.op = "issubclass"
    /\ result.subject > Len(Bootstrap)
    /\ result.bases[1] > Len(Bootstrap)
    /\ result.subject # result.bases[1]
    /\ heap[result.subject].name = heap[result.bases[1]].name
    /\ ~ result.flag

(***************************************************************************)
(* C11: get_attributes(obj) binds each name to the binding of the most     *)
(* specific place that defines it: the own map of the instance if it       *)
(* defines the name, else the earliest type of the full MRO of the type of *)
(* obj that defines it; a name is in the result exactly when the instance  *)
(* map or some type of that MRO defines it. (An object that is no instance *)
(* has no instance map: the map of a class is not part of its own          *)
(* flattening.)                                                            *)
(***************************************************************************)
Flattened == result.op = "get_attributes" /\ result.status = "ok"

InstanceMap(h, obj) == IF h[obj].kind = "Instance" THEN h[obj].dict ELSE EmptyDict

\* the positions of the full MRO of the type of obj whose class defines n
Defining(h, obj, n) ==
    {i \in 1..Len(FullMro(h, typ(h, obj))) :
        n \in DOMAIN h[FullMro(h, typ(h, obj))[i]].dict}

AllNames(h) == UNION {DOMAIN h[o].dict : o \in Handles(h)}

MostSpecific(h, obj, n) ==
    IF n \in DOMAIN InstanceMap(h, obj)
    THEN InstanceMap(h, obj)[n]
    ELSE LET first == CHOOSE i \in Defining(h, obj, n) :
                          \A j \in Defining(h, obj, n) : i <= j
         IN  h[FullMro(h, typ(h, obj))[first]].dict[n]

C11_MostSpecificBinding ==
    Flattened =>
        /\ \A n \in AllNames(heap) \cup DOMAIN result.attrs :
              n \in DOMAIN result.attrs <=>
                  \/ n \in DOMAIN InstanceMap(heap, result.subject)
                  \/ Defining(heap, result.subject, n) # {}
        /\ \A n \in DOMAIN result.attrs :
              result.attrs[n] = MostSpecific(heap, result.subject, n)

\* an instance with a binding of its own whose type and a created base of it
\* bind one name to different values
C11_Witness ==
    /\ Flattened
    /\ heap[result.subject].kind = "Instance"
    /\ DOMAIN heap[result.subject].dict # {}
    /\ \E n \in FlatNames :
          /\ n \notin DOMAIN heap[result.subject].dict
          /\ \E i, j \in Defining(heap, result.subject, n) :
                LET full == FullMro(heap, typ(heap, result.subject))
                IN  i < j /\ heap[full[i]].dict[n] # heap[full[j]].dict[n]

(***************************************************************************)
(* C12: once a type exists, no operation of the type object (new and       *)
(* type_new of other types, type_call, type_getattribute, isinstance,      *)
(* issubclass, get_attributes, type_mro, type_repr) changes its mro or its *)
(* name, and it stays a type; only its attribute map may change.           *)
(***************************************************************************)
Frozen(c) ==
    /\ c \in Handles(heap')
    /\ heap'[c].kind = "Class"
    /\ heap'[c].mro = heap[c].mro
    /\ heap'[c].name = heap[c].name
    /\ heap'[c].typ = heap[c].typ

C12_MroAndNameAreFrozen == [][\A c \in Classes(heap) : Frozen(c)]_vars

\* a created type with a created subclass whose attribute map was rebound
C12_Witness ==
    /\ result.op = "set_attr"
    /\ IsClass(heap, result.subject)
    /\ heap[result.subject].mro # <<>>
    /\ heap[result.subject].dict = Dict1("x", FnObj)
    /\ \E c \in Classes(heap) : c # result.subject /\ issubclass(heap, c, result.subject)

(***************************************************************************)
(* C13: linearise_mro terminates on every worklist: an iteration of its    *)
(* loop either ends the call or strictly reduces the number of elements    *)
(* that remain in the worklist, so a call that is in the loop leaves it;   *)
(* and on base MROs of no conflicting precedence (all of them fit, in      *)
(* order, in one duplicate-free sequence) it ends with a result.           *)
(***************************************************************************)
RECURSIVE Total(_)
Total(w) == IF w = <<>> THEN 0 ELSE Len(w[1]) + Total(Tail(w))

Elements(w) == UNION {Range(w[i]) : i \in 1..Len(w)}

\* some duplicate-free order of the elements holds every sequence in order
NoConflict(w) ==
    \E ord \in [1..Cardinality(Elements(w)) -> Elements(w)] :
        /\ NoDuplicates(ord)
        /\ \A i \in 1..Len(w) : IsSubseq(w[i], ord)

LinReturned == result.op = "linearise_loop" /\ result.status \in {"some", "none"}

C13_MergeTerminates ==
    /\ [][(InLoop /\ InLoop') => Total(result'.rest) < Total(result.rest)]_vars
    /\ (InLoop ~> LinReturned)
    /\ []((LinReturned /\ NoConflict(result.lists)) => result.status = "some")

\* three different base MROs that share an ancestor were merged
C13_Witness ==
    /\ LinReturned
    /\ result.status = "some"
    /\ Len(result.lists) = 3
    /\ \A i \in 1..3 : Len(result.lists[i]) = 2
    /\ Cardinality(Range(result.lists)) = 3
    /\ Len(result.bases) >= 3

(***************************************************************************)
(* C14: idempotence of the merge. For every duplicate-free sequence S, the *)
(* merge of a worklist of two or more copies of S succeeds and is S.       *)
(***************************************************************************)
CopiesOfOne(w) ==
    /\ Len(w) >= 2
    /\ \A i \in 1..Len(w) : w[i] = w[1]
    /\ NoDuplicates(w[1])

C14_MergeOfCopies ==
    (LinReturned /\ CopiesOfOne(result.lists)) =>
        /\ result.status = "some"
        /\ result.bases = result.lists[1]
        /\ linearise_mro(result.lists) = [some |-> TRUE, mro |-> result.lists[1]]

\* three copies of a sequence of two handles were merged
C14_Witness ==
    /\ LinReturned
    /\ CopiesOfOne(result.lists)
    /\ Len(result.lists) = 3
    /\ Len(result.lists[1]) = 2

(***************************************************************************)
(* C15: at every step of the merge the head pushed is the head of the      *)
(* earliest sequence of the worklist whose head occurs in no tail; so the  *)
(* merge of [[A, root], [B, root]], for distinct A, B and root, is         *)
(* [A, B, root].                                                           *)
(***************************************************************************)
\* x occurs in no tail of the worklist
InNoTail(w, x) == \A j \in 1..Len(w) : \A k \in 2..Len(w[j]) : w[j][k] # x

HeadQualifies(w, i) == w[i] # <<>> /\ InNoTail(w, w[i][1])

EarliestQualifyingIsPushed ==
    (InLoop /\ InLoop') =>
        \E i \in 1..Len(result.rest) :
            /\ HeadQualifies(result.rest, i)
            /\ \A j \in 1..(i - 1) : ~ HeadQualifies(result.rest, j)
            /\ result'.bases = Append(result.bases, result.rest[i][1])

TwoOverRoot(w) ==
    /\ Len(w) = 2
    /\ Len(w[1]) = 2
    /\ Len(w[2]) = 2
    /\ w[1][2] = w[2][2]
    /\ Cardinality({w[1][1], w[2][1], w[1][2]}) = 3

C15_EarliestHeadWins ==
    /\ [][EarliestQualifyingIsPushed]_vars
    /\ []((LinReturned /\ TwoOverRoot(result.lists)) =>
             /\ result.status = "some"
             /\ result.bases = <<result.lists[1][1], result.lists[2][1],
                                 result.lists[1][2]>>)

\* [[A, object], [B, object]] was merged: the heads of both sequences qualified
C15_Witness ==
    /\ LinReturned
    /\ TwoOverRoot(result.lists)
    /\ result.lists[1][2] = ObjectType
    /\ HeadQualifies(result.lists, 1)
    /\ HeadQualifies(result.lists, 2)
    /\ Len(result.bases) = 3

(***************************************************************************)
(* C16: a metatype attribute whose class has __set__ but no __get__ ends   *)
(* the lookup in the metatype branch: the lookup never falls through to    *)
(* the attribute the subject itself holds under the name.                  *)
(* As stated it fails: the branch is taken only when the class of the      *)
(* metatype attribute has __get__ as well.                                 *)
(***************************************************************************)
SubjectAttr == get_attr(heap, result.subject, result.name)

\* the class of the metatype attribute has __set__ and no __get__
MetaSetAlone ==
    /\ Looked
    /\ MetaAttr # NoHandle
    /\ has_attr(heap, typ(heap, MetaAttr), "__set__")
    /\ ~ has_attr(heap, typ(heap, MetaAttr), "__get__")

\* the result is the attribute of the subject, plain or bound by its __get__
FromSubject ==
    /\ SubjectAttr # NoHandle
    /\ \/ result.status = "ok" /\ result.value = SubjectAttr
       \/ /\ result.status = "invoke"
          /\ result.call = <<get_attr(heap, typ(heap, SubjectAttr), "__get__"),
                             SubjectAttr, NoneObj, result.subject>>

C16_SetAloneReturnsEarly == MetaSetAlone => ~ FromSubject

(***************************************************************************)
(* C16, amended: a metatype attribute whose class has __set__ but no       *)
(* __get__ does not decide the lookup. If the subject holds the name, the  *)
(* result is the attribute of the subject (bound by the __get__ of its     *)
(* class if there is one); if not, it is the metatype attribute itself.    *)
(***************************************************************************)
C16_SetAloneFallsThrough ==
    MetaSetAlone =>
        IF SubjectAttr # NoHandle
        THEN FromSubject
        ELSE result.status = "ok" /\ result.value = MetaAttr

\* the subject holds another attribute under the name of a set-only metatype attribute
C16_Witness ==
    /\ MetaSetAlone
    /\ SubjectAttr \notin {NoHandle, MetaAttr}
    /\ result.value = SubjectAttr

(***************************************************************************)
(* C17: linearise_mro returns no result exactly when its loop reaches a    *)
(* worklist in which some sequence is not empty and the head of every      *)
(* sequence that is not empty occurs in a tail; a call that fails returns  *)
(* nothing of what it had pushed and a call that succeeds has emptied the  *)
(* worklist; the head pushed at a step is removed from the head of every   *)
(* sequence that starts with it, and from nowhere else.                    *)
(***************************************************************************)
Stuck(w) ==
    /\ \E i \in 1..Len(w) : w[i] # <<>>
    /\ \A i \in 1..Len(w) : w[i] # <<>> => ~ InNoTail(w, w[i][1])

FailsWhenStuck ==
    InLoop => (result'.status = "none" <=> Stuck(result.rest))

HeadRemovedEverywhere ==
    (InLoop /\ InLoop') =>
        LET before == NonEmpty(result.rest)
            head == Last(result'.bases)
        IN  /\ Len(result'.rest) = Len(before)
            /\ \A j \in 1..Len(before) :
                  result'.rest[j] = IF before[j][1] = head
                                    THEN Tail(before[j]) ELSE before[j]

NoPartialResult ==
    LinReturned =>
        /\ result.status = "none" => Stuck(result.rest) /\ result.bases = <<>>
        /\ result.status = "some" =>
              /\ Total(result.rest) = 0
              /\ Range(result.bases) = Elements(result.lists)
        /\ linearise_mro(result.lists) =
              [some |-> result.status = "some", mro |-> result.bases]

C17_FailsExactlyWhenStuck ==
    /\ [][FailsWhenStuck /\ HeadRemovedEverywhere]_vars
    /\ []NoPartialResult

\* a merge that got stuck after it had pushed a head shared by two sequences
C17_Witness ==
    /\ LinReturned
    /\ result.status = "none"
    /\ Stuck(result.rest)
    /\ \E i, j \in 1..Len(result.lists) :
          /\ i < j
          /\ Len(result.lists[i]) = 2
          /\ Len(result.lists[j]) = 2
          /\ result.lists[i][1] = result.lists[j][1]
          /\ Len(result.rest[i]) = 1
          /\ Len(result.rest[j]) = 1

(***************************************************************************)
(* C18: the __getattr__ of the subject is invoked, with (metatype, name),  *)
(* only when the name is found neither on the subject nor on its metatype, *)
(* and the lookup fails with the attribute error only when, in addition,   *)
(* the subject has no __getattr__; when the name is found on neither, one  *)
(* of the two happens.                                                     *)
(***************************************************************************)
Getter == get_attr(heap, result.subject, "__getattr__")

Found == SubjectAttr # NoHandle \/ MetaAttr # NoHandle

\* the result is the invocation of a callable with the metatype alone
FallbackInvoked == result.status = "invoke" /\ Len(result.call) = 2

C18_FallbackIsLast ==
    Looked =>
        /\ FallbackInvoked =>
              /\ ~ Found
              /\ Getter # NoHandle
              /\ result.call = <<Getter, typ(heap, result.subject)>>
        /\ result.status = "attribute_error" => ~ Found /\ Getter = NoHandle
        /\ ~ Found => FallbackInvoked \/ result.status = "attribute_error"

\* a class of a created metaclass that binds x was asked for y and
\* answered through its __getattr__
C18_Witness ==
    /\ Looked
    /\ FallbackInvoked
    /\ typ(heap, result.subject) > Len(Bootstrap)
    /\ get_attr(heap, typ(heap, result.subject), "x") # NoHandle
    /\ result.name = "y"

(***************************************************************************)
(* C19: in every execution of type_call __new__ is invoked exactly once,   *)
(* before any invocation of __init__; __init__ is invoked at most once,    *)
(* with the arguments of __new__, and only after __new__ returned; when    *)
(* binding or invoking __new__ fails, __init__ is not invoked and the      *)
(* error is the result.                                                    *)
(* As stated it fails: when binding __new__ fails, __new__ is not invoked. *)
(***************************************************************************)
TypeCalled == result.op = "type_call" /\ result.status # "panic"

InvokedAs(method) == {i \in 1..Len(result.invoked) : result.invoked[i].method = method}

\* __new__ was bound and invoked, and raised
NewRaised ==
    /\ InvokedAs("__new__") # {}
    /\ result.bases = <<>>

InitAfterNew ==
    /\ Cardinality(InvokedAs("__init__")) <= 1
    /\ \A i \in InvokedAs("__init__") :
          /\ \E j \in InvokedAs("__new__") : j < i
          /\ Len(result.bases) >= 1
          /\ result.invoked[i].args = Tail(result.args)
          /\ \A j \in InvokedAs("__new__") :
                result.invoked[j].args = result.invoked[i].args
    /\ (~ result.flag \/ NewRaised) =>
          /\ InvokedAs("__init__") = {}
          /\ result.status = "raised"
          /\ result.value = NoHandle

C19_NewExactlyOnce ==
    TypeCalled =>
        /\ Cardinality(InvokedAs("__new__")) = 1
        /\ InitAfterNew

(***************************************************************************)
(* C19, amended: in every execution of type_call __new__ is invoked at     *)
(* most once, and exactly once when binding it succeeded, before any       *)
(* invocation of __init__; __init__ is invoked at most once, with the      *)
(* arguments of __new__, and only after __new__ returned; when binding or  *)
(* invoking __new__ fails, __init__ is not invoked and the error is the    *)
(* result.                                                                 *)
(***************************************************************************)
C19_NewOnceWhenBound ==
    TypeCalled =>
        /\ Cardinality(InvokedAs("__new__")) = (IF result.flag THEN 1 ELSE 0)
        /\ result.flag => result.invoked[1] =
                              Invocation("__new__", Tail(result.args))
        /\ InitAfterNew

\* a call with a constructor argument whose __new__ and __init__ were both invoked
C19_Witness ==
    /\ TypeCalled
    /\ Len(result.args) = 2
    /\ Len(result.invoked) = 2
    /\ result.bases[1] = Len(heap)

====
